---- MODULE Spec2Model ----
(***************************************************************************)
(* Model of dentalink.query.DentalinkQueryFactory (src/dentalink/query.py):*)
(* a fluent builder that accumulates per-field filter entries and renders  *)
(* them in the shape the Dentalink API expects.                            *)
(*                                                                         *)
(* Two builder objects are driven by the same sequence of calls:           *)
(*   - the builder  DentalinkQueryFactory(initial)          (_query, ...)  *)
(*   - its twin     DentalinkQueryFactory().field(initial)  (twin_query..) *)
(* (the twin of a builder constructed without a name is constructed the    *)
(* same way).  The variables marked "history" record the calls made; no    *)
(* method reads them.                                                      *)
(*                                                                         *)
(* Python values are encoded as follows:                                   *)
(*   Optional[str]      <<>> for None, <<s>> for the string s              *)
(*   a value            a record [type, ...] tagged with its Python type   *)
(*   dict (ordered)     a sequence of [key, value] items with unique keys  *)
(*   {name: string}     the pair <<name, string>>                          *)
(*   datetime format    the sequence of its directives and literal pieces  *)
(***************************************************************************)
EXTENDS Integers, Sequences, FiniteSets, TLC

VARIABLES
    _query,            \* self._query of the builder
    _last_field,       \* self._last_field of the builder
    ret,               \* outcome of the latest call on the builder
    twin_query,        \* self._query of the twin
    twin_last_field,   \* self._last_field of the twin
    twin_ret,          \* outcome of the latest call on the twin
    call,              \* history: the latest call made
    selected,          \* history: a field selection has been made
    named,             \* history: the field named by the latest selection
    log,               \* history: per field, the entries of the operator calls
                       \*          made since the field was last selected anew
    order,             \* history: the field names in the order of their first selection
    invoked,           \* history: the latest operation invoked with its arguments
    sent,              \* the request the client handed to the transport
    response,          \* the response of the transport
    result             \* outcome of the latest client operation

vars ==
    <<_query, _last_field, ret, twin_query, twin_last_field, twin_ret,
      call, selected, named, log, order, invoked, sent, response, result>>

(***************************************************************************)
(* Bounds of the model.                                                    *)
(***************************************************************************)
\* largest number of filter entries stored in one builder (all fields together)
MaxEntries == 2

(***************************************************************************)
(* Input domains.                                                          *)
(***************************************************************************)
None == <<>>
Some(x) == <<x>>

FieldNames == {"", "foo"}

Operators == {"eq", "neq", "gt", "gte", "lt", "lte", "lk"}

NoneValue == [type |-> "NoneType"]
IntValue(i) == [type |-> "int", int |-> i]
BoolValue(b) == [type |-> "bool", bool |-> b]
StrValue(s) == [type |-> "str", str |-> s]
DatetimeValue(y, mo, d, h, mi, s) ==
    [type |-> "datetime", year |-> y, month |-> mo, day |-> d,
     hour |-> h, minute |-> mi, second |-> s]

\* datetime(2022, 1, 1), the date of the tests (test_query.py:33)
NewYear == DatetimeValue(2022, 1, 1, 0, 0, 0)

Values ==
    { NoneValue, IntValue(1), BoolValue(TRUE), BoolValue(FALSE), StrValue("bar"), NewYear }

\* "%Y-%m-%d", the default of every operator (query.py:133)
DefaultFormat == <<"%Y", "-", "%m", "-", "%d">>
\* "%Y-%m-%d %H:%M:%S", the format used by the tests (test_query.py:37)
LongFormat == <<"%Y", "-", "%m", "-", "%d", " ", "%H", ":", "%M", ":", "%S">>

Formats == {None, Some(DefaultFormat), Some(LongFormat)}

\* The (value, dt_format) pairs the calls of the state machine are made with.
\* lk is called as its signature says (a datetime or None); the other operators
\* with None, an int and a bool, and with a datetime that lacks its format.
Arguments(name) ==
    IF name = "lk"
    THEN {NoneValue, NewYear} \X {None, Some(DefaultFormat)}
    ELSE ({NoneValue, IntValue(1), BoolValue(TRUE)} \X {None, Some(DefaultFormat)})
         \cup {<<NewYear, None>>}

(***************************************************************************)
(* Outcomes of a call: it returns the builder itself, returns a value, or  *)
(* raises dentalink.exceptions.DentalinkClientQueryError.                  *)
(***************************************************************************)
NotCalled == [kind |-> "none", exc |-> "", message |-> "", value |-> <<>>]
ReturnSelf == [kind |-> "self", exc |-> "", message |-> "", value |-> <<>>]
ReturnValue(v) == [kind |-> "value", exc |-> "", message |-> "", value |-> v]
DentalinkClientQueryError(message) ==
    [kind |-> "raise", exc |-> "DentalinkClientQueryError", message |-> message,
     value |-> <<>>]

MsgNoFormat == "Debes proporcionar un formato si el valor es un datetime"
MsgNoField == "Debes establecer un campo usando .field() antes de agregar un filtro"
\* (written without the accent of "ningun" in the source)
MsgNoQuery == "No se ha proporcionado ningun campo para crear la consulta"

(***************************************************************************)
(* Python dict, insertion ordered.                                         *)
(***************************************************************************)
Keys(d) == {d[i].key : i \in 1..Len(d)}

IndexOf(d, k) == CHOOSE i \in 1..Len(d) : d[i].key = k

GetItem(d, k) == d[IndexOf(d, k)].value

\* d[k] = v : replaces the value in place when k is a key, appends the item otherwise
SetItem(d, k, v) ==
    IF k \in Keys(d)
    THEN [d EXCEPT ![IndexOf(d, k)] = [key |-> k, value |-> v]]
    ELSE Append(d, [key |-> k, value |-> v])

(***************************************************************************)
(* Stringification.                                                        *)
(***************************************************************************)
Pad2(n) == IF n < 10 THEN "0" \o ToString(n) ELSE ToString(n)

Pad4(n) ==
    IF n < 10 THEN "000" \o ToString(n)
    ELSE IF n < 100 THEN "00" \o ToString(n)
    ELSE IF n < 1000 THEN "0" \o ToString(n)
    ELSE ToString(n)

Directive(value, piece) ==
    CASE piece = "%Y" -> Pad4(value.year)
      [] piece = "%m" -> Pad2(value.month)
      [] piece = "%d" -> Pad2(value.day)
      [] piece = "%H" -> Pad2(value.hour)
      [] piece = "%M" -> Pad2(value.minute)
      [] piece = "%S" -> Pad2(value.second)
      [] OTHER -> piece

RECURSIVE strftime(_, _)
strftime(value, format) ==
    IF format = <<>> THEN ""
    ELSE Directive(value, Head(format)) \o strftime(value, Tail(format))

\* str(value)
str(value) ==
    CASE value.type = "int" -> ToString(value.int)
      [] value.type = "str" -> value.str
      [] value.type = "bool" -> IF value.bool THEN "True" ELSE "False"
      [] value.type = "NoneType" -> "None"
      [] value.type = "datetime" ->
            strftime(value, <<"%Y", "-", "%m", "-", "%d", " ", "%H", ":", "%M", ":", "%S">>)

\* mutant of _cast_value_to_str: the format is tested before the type of the value
_cast_value_to_str_format_first(value, dt_format) ==
    IF dt_format = None
    THEN [raised |-> TRUE, message |-> MsgNoFormat, string |-> ""]
    ELSE IF value.type = "datetime"
         THEN [raised |-> FALSE, message |-> "",
               string |-> strftime(value, dt_format[1])]
         ELSE IF value.type = "bool"
              THEN [raised |-> FALSE, message |-> "",
                    string |-> IF value.bool THEN "1" ELSE "0"]
              ELSE [raised |-> FALSE, message |-> "", string |-> str(value)]

\* the result of _cast_value_to_str: a string, or a raised query error
\* mutant of _cast_value_to_str: a boolean goes through str like any other value
_cast_value_to_str_no_bool(value, dt_format) ==
    IF value.type = "datetime"
    THEN IF dt_format = None
         THEN [raised |-> TRUE, message |-> MsgNoFormat, string |-> ""]
         ELSE [raised |-> FALSE, message |-> "",
               string |-> strftime(value, dt_format[1])]
    ELSE [raised |-> FALSE, message |-> "", string |-> str(value)]

_cast_value_to_str(value, dt_format) ==
    IF value.type = "datetime"
    THEN IF dt_format = None
         THEN [raised |-> TRUE, message |-> MsgNoFormat, string |-> ""]
         ELSE [raised |-> FALSE, message |-> "",
               string |-> strftime(value, dt_format[1])]
    ELSE IF value.type = "bool"
         THEN [raised |-> FALSE, message |-> "",
               string |-> IF value.bool THEN "1" ELSE "0"]
         ELSE [raised |-> FALSE, message |-> "", string |-> str(value)]

(***************************************************************************)
(* The methods of the builder, as functions from the object (self) to the  *)
(* object after the call and the outcome of the call.                      *)
(***************************************************************************)
Builder(q, lf) == [_query |-> q, _last_field |-> lf]

\* mutant of _set_field: an existing list is kept (setdefault)
_set_field_keep(self, field) ==
    [_query |-> IF field \in Keys(self._query) THEN self._query
                ELSE SetItem(self._query, field, <<>>),
     _last_field |-> Some(field)]

\* mutant of _set_field: the cursor is not moved
_set_field_no_cursor(self, field) ==
    [_query |-> SetItem(self._query, field, <<>>), _last_field |-> self._last_field]

\* mutant of _set_field: the key is removed and inserted again, at the end
_set_field_reinsert(self, field) ==
    [_query |-> Append(SelectSeq(self._query, LAMBDA item : item.key # field),
                       [key |-> field, value |-> <<>>]),
     _last_field |-> Some(field)]

_set_field(self, field) ==
    Builder(SetItem(self._query, field, <<>>), Some(field))

__init__(field) ==
    IF field # None /\ field[1] # ""
    THEN _set_field(Builder(<<>>, None), field[1])
    ELSE Builder(<<>>, None)

\* shared by the mutants of _add_filter: the call with the list operation given
AddFilterWith(self, name, value, dt_format, field_first, skip_none, replace) ==
    IF field_first /\ self._last_field = None
    THEN [self |-> self, ret |-> DentalinkClientQueryError(MsgNoField)]
    ELSE IF skip_none /\ value.type = "NoneType"
    THEN [self |-> self, ret |-> ReturnSelf]
    ELSE IF self._last_field = None
    THEN [self |-> self, ret |-> DentalinkClientQueryError(MsgNoField)]
    ELSE LET cast == _cast_value_to_str(value, dt_format)
             current == self._last_field[1]
             entry == <<name, cast.string>>
         IN  IF cast.raised
             THEN [self |-> self, ret |-> DentalinkClientQueryError(cast.message)]
             ELSE [self |-> [_query |-> SetItem(self._query, current,
                                         IF replace THEN <<entry>>
                                         ELSE Append(GetItem(self._query, current), entry)),
                             _last_field |-> self._last_field],
                   ret |-> ReturnSelf]

\* mutant of _add_filter: the value is tested for None before the field
_add_filter_none_first(self, name, value, dt_format) ==
    AddFilterWith(self, name, value, dt_format, FALSE, TRUE, FALSE)

\* mutant of _add_filter: a None value is not skipped
_add_filter_keep_none(self, name, value, dt_format) ==
    AddFilterWith(self, name, value, dt_format, TRUE, FALSE, FALSE)

\* mutant of _add_filter: the entry replaces the list instead of extending it
_add_filter_replace(self, name, value, dt_format) ==
    AddFilterWith(self, name, value, dt_format, TRUE, TRUE, TRUE)

_add_filter(self, name, value, dt_format) ==
    IF self._last_field = None
    THEN [self |-> self, ret |-> DentalinkClientQueryError(MsgNoField)]
    ELSE IF value.type = "NoneType"
    THEN [self |-> self, ret |-> ReturnSelf]
    ELSE LET cast == _cast_value_to_str(value, dt_format)
             current == self._last_field[1]
         IN  IF cast.raised
             THEN [self |-> self, ret |-> DentalinkClientQueryError(cast.message)]
             ELSE [self |-> Builder(SetItem(self._query, current,
                                            Append(GetItem(self._query, current),
                                                   <<name, cast.string>>)),
                                    self._last_field),
                   ret |-> ReturnSelf]

\* mutant of field: no early return for the current field
field_always_set(self, field_name) ==
    [self |-> _set_field(self, field_name), ret |-> ReturnSelf]

field(self, field_name) ==
    IF self._last_field = Some(field_name)
    THEN [self |-> self, ret |-> ReturnSelf]
    ELSE [self |-> _set_field(self, field_name), ret |-> ReturnSelf]

\* mutant of Render: the first entry stands for any non-empty list
Render_first(value) ==
    IF Len(value) >= 1
    THEN [type |-> "dict", dict |-> value[1], list |-> <<>>]
    ELSE [type |-> "list", dict |-> <<>>, list |-> value]

\* value[0] if len(value) == 1 else value
Render(value) ==
    IF Len(value) = 1
    THEN [type |-> "dict", dict |-> value[1], list |-> <<>>]
    ELSE [type |-> "list", dict |-> <<>>, list |-> value]

\* mutant of Comprehension: fields without filters are not omitted
RECURSIVE Comprehension_all(_)
Comprehension_all(items) ==
    IF items = <<>> THEN <<>>
    ELSE <<[key |-> Head(items).key, value |-> Render(Head(items).value)]>>
         \o Comprehension_all(Tail(items))

\* the dict comprehension of parse: the items with a non-empty list, in order
RECURSIVE Comprehension(_)
Comprehension(items) ==
    IF items = <<>> THEN <<>>
    ELSE IF Len(Head(items).value) > 0
         THEN <<[key |-> Head(items).key, value |-> Render(Head(items).value)]>>
              \o Comprehension(Tail(items))
         ELSE Comprehension(Tail(items))

\* mutant of parse: the error is raised when no filter is left to return
parse_empty_result(self) ==
    IF Len(Comprehension(self._query)) = 0
    THEN [self |-> self, ret |-> DentalinkClientQueryError(MsgNoQuery)]
    ELSE [self |-> self, ret |-> ReturnValue(Comprehension(self._query))]

parse(self) ==
    IF Len(self._query) = 0
    THEN [self |-> self, ret |-> DentalinkClientQueryError(MsgNoQuery)]
    ELSE [self |-> self, ret |-> ReturnValue(Comprehension(self._query))]

(***************************************************************************)
(* State machine.                                                          *)
(***************************************************************************)
Self == Builder(_query, _last_field)
Twin == Builder(twin_query, twin_last_field)

RECURSIVE SumLen(_)
SumLen(items) ==
    IF items = <<>> THEN 0 ELSE Len(Head(items).value) + SumLen(Tail(items))

WithinBounds(self) == SumLen(self._query) <= MaxEntries

\* the same call is made on the builder (outcome r) and on its twin (outcome t)
Call(r, t) ==
    /\ WithinBounds(r.self)
    /\ WithinBounds(t.self)
    /\ _query' = r.self._query
    /\ _last_field' = r.self._last_field
    /\ ret' = r.ret
    /\ twin_query' = t.self._query
    /\ twin_last_field' = t.self._last_field
    /\ twin_ret' = t.ret
    /\ UNCHANGED <<sent, response, result>>

\* a call: its method ("operator" for the seven operators), whether its value was
\* None, whether it named the current field, and the number of entries the field
\* it named held when the call selected it anew
Made(method, none_value, current, dropped) ==
    [method |-> method, none_value |-> none_value, current |-> current,
     dropped |-> dropped]

NoLog == [f \in FieldNames |-> <<>>]

\* no operation invoked with recorded arguments, no client operation run
NotInvoked == [operation |-> "none"]

ClientIdle ==
    /\ invoked = NotInvoked
    /\ sent = None
    /\ response = None
    /\ result = NotCalled

\* b = DentalinkQueryFactory(initial); twin = DentalinkQueryFactory().field(initial)
Construct(initial) ==
    LET b == __init__(initial)
        t == IF initial = None THEN __init__(None)
             ELSE field(__init__(None), initial[1]).self
    IN  /\ _query = b._query
        /\ _last_field = b._last_field
        /\ ret = NotCalled
        /\ twin_query = t._query
        /\ twin_last_field = t._last_field
        /\ twin_ret = NotCalled
        /\ call = Made("__init__", FALSE, FALSE, 0)
        /\ selected = (b._last_field # None)
        /\ named = b._last_field
        /\ log = NoLog
        /\ order = b._last_field
        /\ ClientIdle

\* construction without a field name or with a non-empty one
Init == \E initial \in {None} \cup {Some(f) : f \in FieldNames \ {""}} : Construct(initial)

\* construction with any argument, the empty field name included
InitAny == \E initial \in {None} \cup {Some(f) : f \in FieldNames} : Construct(initial)

OperatorCall(name, value, dt_format) ==
    LET r == _add_filter(Self, name, value, dt_format)
        t == _add_filter(Twin, name, value, dt_format)
    IN  /\ Call(r, t)
        /\ call' = Made("operator", value.type = "NoneType", FALSE, 0)
        /\ log' = IF r.ret = ReturnSelf /\ value.type # "NoneType"
                  THEN [log EXCEPT ![named[1]] =
                            Append(@, <<name, _cast_value_to_str(value, dt_format).string>>)]
                  ELSE log
        /\ UNCHANGED <<selected, named, order>>

Operator(name) ==
    \E arg \in Arguments(name) : OperatorCall(name, arg[1], arg[2]) /\ UNCHANGED invoked

eq == Operator("eq")
neq == Operator("neq")
gt == Operator("gt")
gte == Operator("gte")
lt == Operator("lt")
lte == Operator("lte")
lk == Operator("lk")

FieldCall(field_name) ==
    /\ Call(field(Self, field_name), field(Twin, field_name))
    /\ call' = Made("field", FALSE, named = Some(field_name),
                     IF named = Some(field_name) THEN 0 ELSE Len(log[field_name]))
    /\ selected' = TRUE
    /\ named' = Some(field_name)
    /\ log' = IF named = Some(field_name) THEN log
              ELSE [log EXCEPT ![field_name] = <<>>]
    /\ order' = IF \E i \in 1..Len(order) : order[i] = field_name THEN order
                ELSE Append(order, field_name)
    /\ UNCHANGED invoked

SelectField == \E field_name \in FieldNames : FieldCall(field_name)

Parse ==
    /\ Call(parse(Self), parse(Twin))
    /\ call' = Made("parse", FALSE, FALSE, 0)
    /\ UNCHANGED <<selected, named, log, order, invoked>>

Next == eq \/ neq \/ gt \/ gte \/ lt \/ lte \/ lk \/ SelectField \/ Parse

Spec == Init /\ [][Next]_vars

SpecAny == InitAny /\ [][Next]_vars

(***************************************************************************)
(* One operator call on a fresh builder, with every operator, value and    *)
(* format, the arguments kept in invoked.                                  *)
(***************************************************************************)
CastValues == Values \cup {IntValue(0), StrValue("1"), StrValue("")}

Invoked(operation, args) == [operation |-> operation, args |-> args]

CastCall ==
    \E name \in Operators, value \in CastValues, dt_format \in Formats :
        /\ invoked = NotInvoked
        /\ OperatorCall(name, value, dt_format)
        /\ invoked' = Invoked(name, [value |-> value, dt_format |-> dt_format])

NextCast == CastCall

SpecCast == Init /\ [][NextCast]_vars

(***************************************************************************)
(* DentalinkClient (client.py).  DentalinkQuery, the name client.py        *)
(* imports from query.py, is read as DentalinkQueryFactory, the only       *)
(* class query.py defines.                                                 *)
(***************************************************************************)
_url == "https://api.dentalink.healthatom.com/api/v1"

\* outcomes of a client operation
Returned(value) ==
    [kind |-> "value", exc |-> "", code |-> 0, message |-> "", value |-> value]
Raised(exc, message) ==
    [kind |-> "raise", exc |-> exc, code |-> 0, message |-> message, value |-> <<>>]
DentalinkClientHTTPException(code, message) ==
    [kind |-> "raise", exc |-> "DentalinkClientHTTPException", code |-> code,
     message |-> "[HTTP " \o ToString(code) \o "] " \o message, value |-> <<>>]

\* bool(value) of Python
Truthy(value) ==
    CASE value.type = "NoneType" -> FALSE
      [] value.type = "int" -> value.int # 0
      [] value.type = "str" -> value.str # ""
      [] value.type = "bool" -> value.bool
      [] value.type = "datetime" -> TRUE

\* the chained calls of a fluent expression; a raise ends the chain
Start(field_name) == [self |-> __init__(Some(field_name)), ret |-> ReturnSelf]
ThenOperator(step, name, value) ==
    IF step.ret.kind = "raise" THEN step
    ELSE _add_filter(step.self, name, value, Some(DefaultFormat))
ThenField(step, field_name) ==
    IF step.ret.kind = "raise" THEN step ELSE field(step.self, field_name)

\* json.dumps of the mapping parse returns, as the sequence of its pieces; the
\* pieces that are names and strings hold letters, digits, "-" and "_" only
DumpsEntry(entry) == <<"{", "\"", entry[1], "\"", ":", " ", "\"", entry[2], "\"", "}">>

RECURSIVE DumpsList(_)
DumpsList(list) ==
    IF list = <<>> THEN <<>>
    ELSE DumpsEntry(list[1])
         \o (IF Len(list) = 1 THEN <<>> ELSE <<",", " ">>)
         \o DumpsList(Tail(list))

DumpsRendered(rendered) ==
    IF rendered.type = "dict" THEN DumpsEntry(rendered.dict)
    ELSE <<"[">> \o DumpsList(rendered.list) \o <<"]">>

RECURSIVE DumpsItems(_)
DumpsItems(items) ==
    IF items = <<>> THEN <<>>
    ELSE <<"\"", items[1].key, "\"", ":", " ">> \o DumpsRendered(items[1].value)
         \o (IF Len(items) = 1 THEN <<>> ELSE <<",", " ">>)
         \o DumpsItems(Tail(items))

dumps(query) == <<"{">> \o DumpsItems(query) \o <<"}">>

\* urllib.parse.quote with safe="@#$&()*!+=:;,?/'", piece by piece
QuotePiece(piece) ==
    CASE piece = "{" -> "%7B"
      [] piece = "}" -> "%7D"
      [] piece = "[" -> "%5B"
      [] piece = "]" -> "%5D"
      [] piece = "\"" -> "%22"
      [] piece = " " -> "%20"
      [] OTHER -> piece

RECURSIVE quote(_)
quote(pieces) ==
    IF pieces = <<>> THEN "" ELSE QuotePiece(pieces[1]) \o quote(Tail(pieces))

\* mutant of __make_uri: the query string is appended also for an empty filter
__make_uri_always_q(endpoint, query) ==
    IF query = None THEN _url \o endpoint
    ELSE _url \o endpoint \o "?q=" \o quote(dumps(query[1]))

\* query is None or Some(mapping)
__make_uri(endpoint, query) ==
    IF query = None \/ Len(query[1]) = 0 THEN _url \o endpoint
    ELSE _url \o endpoint \o "?q=" \o quote(dumps(query[1]))

\* responses of the transport: status code, text, and the decoded body
\* (None where the text is not JSON)
Response(status_code, text, json) ==
    [status_code |-> status_code, text |-> text, json |-> json]

ValidData == "data"

DataBody ==
    Response(200, "{\"links\": null, \"data\": data}",
             Some(<<[key |-> "links", value |-> "null"], [key |-> "data", value |-> ValidData]>>))
CreatedBody == [DataBody EXCEPT !.status_code = 201]
ErrorBody ==
    Response(404, "{\"error\": {\"message\": \"not found\"}}",
             Some(<<[key |-> "error", value |-> <<[key |-> "message", value |-> "not found"]>>]>>))
EmptyObjectBody == Response(404, "{}", Some(<<>>))
HtmlBody == Response(502, "<html>Bad Gateway</html>", None)

Responses == <<DataBody, CreatedBody, ErrorBody, EmptyObjectBody, HtmlBody>>

Request(method, uri, query, json) ==
    [method |-> method, uri |-> uri, query |-> query, json |-> json]

\* the request _request hands to the transport; query is None or Some(step),
\* the builder expression of the caller; parse may raise before any request
Filter(query) == IF query = None THEN Returned(None) ELSE
    LET parsed == IF query[1].ret.kind = "raise" THEN query[1].ret
                  ELSE parse(query[1].self).ret
    IN  IF parsed.kind = "raise" THEN Raised(parsed.exc, parsed.message)
        ELSE Returned(Some(parsed.value))

\* lines 91-103 of _request
Handle(resp) ==
    IF resp.status_code # 200
    THEN IF resp.json = None
         THEN DentalinkClientHTTPException(resp.status_code,
                                           "Error inesperado: " \o resp.text)
         ELSE IF "error" \notin Keys(resp.json[1])
              THEN Raised("KeyError", "'error'")
              ELSE IF "message" \notin Keys(GetItem(resp.json[1], "error"))
                   THEN Raised("KeyError", "'message'")
                   ELSE DentalinkClientHTTPException(
                            resp.status_code,
                            GetItem(GetItem(resp.json[1], "error"), "message"))
    ELSE IF resp.json = None THEN Raised("JSONDecodeError", resp.text)
         ELSE Returned(resp.json[1])

\* DentalinkResponse(links=response.get("links"), data=...response["data"]...)
DentalinkResponse(outcome) ==
    IF outcome.kind = "raise" THEN outcome
    ELSE IF "data" \notin Keys(outcome.value) THEN Raised("KeyError", "'data'")
         ELSE Returned([links |-> IF "links" \in Keys(outcome.value)
                                  THEN GetItem(outcome.value, "links") ELSE "null",
                        data |-> GetItem(outcome.value, "data")])

\* _request and the wrapping of its value, as one step of the client
_request(operation, args, method, endpoint, query, data, resp) ==
    LET filter == Filter(query)
    IN  /\ invoked' = Invoked(operation, args)
        /\ IF filter.kind = "raise"
           THEN /\ sent' = None
                /\ response' = None
                /\ result' = filter
           ELSE /\ sent' = Some(Request(method, __make_uri(endpoint, filter.value),
                                        filter.value, data))
                /\ response' = Some(resp)
                /\ result' = DentalinkResponse(Handle(resp))
        /\ UNCHANGED <<_query, _last_field, ret, twin_query, twin_last_field,
                       twin_ret, call, selected, named, log, order>>

Optional(values) == {NoneValue} \cup values

obtener_citas ==
    \E start_date \in Optional({NewYear}), end_date \in Optional({NewYear}),
       id_sucursal \in Optional({IntValue(1)}),
       id_estado \in Optional({IntValue(0), IntValue(1)}),
       i \in 1..Len(Responses) :
        LET q == ThenOperator(ThenField(ThenOperator(ThenField(ThenOperator(ThenOperator(
                     Start("fecha"), "gte", start_date), "lte", end_date),
                     "id_sucursal"), "eq", id_sucursal),
                     "id_estado"), "eq", id_estado)
        IN  _request("obtener_citas",
                     [start_date |-> start_date, end_date |-> end_date,
                      id_sucursal |-> id_sucursal, id_estado |-> id_estado],
                     "GET", "/citas", Some(q), None, Responses[i])

obtener_estados_de_cita ==
    \E nombre \in Optional({StrValue("bar")}),
       reservado \in Optional({BoolValue(TRUE), BoolValue(FALSE)}),
       anulacion \in Optional({BoolValue(FALSE)}),
       uso_interno \in Optional({BoolValue(TRUE)}),
       habilitado \in Optional({BoolValue(FALSE)}),
       i \in 1..Len(Responses) :
        LET q == ThenOperator(ThenField(ThenOperator(ThenField(ThenOperator(ThenField(
                 ThenOperator(ThenField(ThenOperator(
                     Start("nombre"), "eq", nombre),
                     "reservado"), "eq", reservado),
                     "anulacion"), "eq", anulacion),
                     "uso_interno"), "eq", uso_interno),
                     "habilitado"), "eq", habilitado)
        IN  _request("obtener_estados_de_cita",
                     [nombre |-> nombre, reservado |-> reservado, anulacion |-> anulacion,
                      uso_interno |-> uso_interno, habilitado |-> habilitado],
                     "GET", "/citas/estados", Some(q), None, Responses[i])

obtener_sucursales ==
    \E nombre \in Optional({StrValue("bar")}),
       habilitada \in Optional({BoolValue(TRUE), BoolValue(FALSE)}),
       i \in 1..Len(Responses) :
        LET q == ThenOperator(ThenField(ThenOperator(
                     Start("nombre"), "eq", nombre), "habilitada"), "eq", habilitada)
        IN  _request("obtener_sucursales",
                     [nombre |-> nombre, habilitada |-> habilitada],
                     "GET", "/sucursales", Some(q), None, Responses[i])

IdCitas == {7}

obtener_cita_segun_id ==
    \E id_cita \in IdCitas, i \in 1..Len(Responses) :
        _request("obtener_cita_segun_id", [id_cita |-> id_cita],
                 "GET", "/citas/" \o ToString(id_cita), None, None, Responses[i])

\* mutant of UpdateData: duracion is tested against None
UpdateData_not_none(duracion, id_estado, comentarios, flag_notificar_anulacion) ==
    (IF duracion # NoneValue THEN <<[key |-> "duracion", value |-> duracion]>> ELSE <<>>)
    \o (IF Truthy(id_estado) THEN <<[key |-> "id_estado", value |-> id_estado]>> ELSE <<>>)
    \o (IF Truthy(comentarios) THEN <<[key |-> "comentarios", value |-> comentarios]>>
        ELSE <<>>)
    \o (IF Truthy(flag_notificar_anulacion)
        THEN <<[key |-> "flag_notificar_anulacion", value |-> BoolValue(TRUE)]>> ELSE <<>>)

\* the body actualizar_cita_segun_id assembles (lines 267-280)
UpdateData(duracion, id_estado, comentarios, flag_notificar_anulacion) ==
    (IF Truthy(duracion) THEN <<[key |-> "duracion", value |-> duracion]>> ELSE <<>>)
    \o (IF Truthy(id_estado) THEN <<[key |-> "id_estado", value |-> id_estado]>> ELSE <<>>)
    \o (IF Truthy(comentarios) THEN <<[key |-> "comentarios", value |-> comentarios]>>
        ELSE <<>>)
    \o (IF Truthy(flag_notificar_anulacion)
        THEN <<[key |-> "flag_notificar_anulacion", value |-> BoolValue(TRUE)]>> ELSE <<>>)

actualizar_cita_segun_id ==
    \E id_cita \in IdCitas,
       duracion \in Optional({IntValue(0), IntValue(30)}),
       id_estado \in Optional({IntValue(0), IntValue(1)}),
       comentarios \in Optional({StrValue(""), StrValue("ok")}),
       flag_notificar_anulacion \in Optional({BoolValue(FALSE), BoolValue(TRUE)}),
       i \in 1..Len(Responses) :
        _request("actualizar_cita_segun_id",
                 [id_cita |-> id_cita, duracion |-> duracion, id_estado |-> id_estado,
                  comentarios |-> comentarios,
                  flag_notificar_anulacion |-> flag_notificar_anulacion],
                 "PUT", "/citas/" \o ToString(id_cita), None,
                 Some(UpdateData(duracion, id_estado, comentarios, flag_notificar_anulacion)),
                 Responses[i])

InitClient == Construct(None)

NextClient ==
    \/ obtener_citas
    \/ obtener_estados_de_cita
    \/ obtener_sucursales
    \/ obtener_cita_segun_id
    \/ actualizar_cita_segun_id

SpecClient == InitClient /\ [][NextClient]_vars

(***************************************************************************)
(* Vocabulary of the properties.                                           *)
(***************************************************************************)
IsPrefix(a, b) == Len(a) <= Len(b) /\ SubSeq(b, 1, Len(a)) = a

\* the entries a rendered field stands for
EntriesOf(rendered) ==
    IF rendered.type = "dict" THEN <<rendered.dict>> ELSE rendered.list

\* the fields of the builder that hold no entry / at least one entry
Filled(d) == {k \in Keys(d) : GetItem(d, k) # <<>>}

QueryError(r) == r.kind = "raise" /\ r.exc = "DentalinkClientQueryError"

(***************************************************************************)
(* C1: an operator called on a builder on which no field has been          *)
(* selected raises the query error, whatever the operator, the value (None *)
(* included) and the format, and leaves the builder as it was.             *)
(***************************************************************************)
C1_OperatorBeforeFieldRaises ==
    /\ ~selected =>
          \A name \in Operators, value \in Values, dt_format \in Formats :
              LET r == _add_filter(Self, name, value, dt_format)
              IN  QueryError(r.ret) /\ r.self = Self
    /\ (~selected /\ call.method = "operator") =>
          (QueryError(ret) /\ _query = <<>> /\ _last_field = None)

\* an operator was called with None on a builder without a field and raised
C1_Witness ==
    ~selected /\ call.method = "operator" /\ call.none_value /\ QueryError(ret)

(***************************************************************************)
(* C2: parse raises the query error on a builder on which no field was     *)
(* ever selected; once a field has been selected parse returns a mapping,  *)
(* also when every filter list is empty.                                   *)
(***************************************************************************)
C2_ParseRaisesIffNeverSelected ==
    /\ ~selected => QueryError(parse(Self).ret)
    /\ selected => parse(Self).ret.kind = "value"
    /\ call.method = "parse" => (QueryError(ret) <=> ~selected)
    /\ call.method = "parse" => (ret.kind = "value" <=> selected)

\* parse was called after a selection, with every filter list empty, and returned
C2_Witness ==
    selected /\ call.method = "parse" /\ ret.kind = "value" /\ Filled(_query) = {}

(***************************************************************************)
(* C3: selecting anew a field that was selected earlier and is not the     *)
(* current one empties its list: right after the selection the list is     *)
(* empty, and from then on the list, and what parse shows under the field, *)
(* are exactly the entries of the operator calls made since (the field is  *)
(* left out of the mapping while there are none).                          *)
(***************************************************************************)
C3_ReselectionResets ==
    selected =>
        LET f == named[1]
            shown == parse(Self).ret.value
        IN  /\ f \in Keys(_query)
            /\ (call.method = "field" /\ ~call.current) => GetItem(_query, f) = <<>>
            /\ GetItem(_query, f) = log[f]
            /\ log[f] = <<>> => f \notin Keys(shown)
            /\ log[f] # <<>> => (f \in Keys(shown) /\ EntriesOf(GetItem(shown, f)) = log[f])

\* a field that held entries was selected anew: its list is empty and parse omits it
C3_Witness ==
    /\ call.method = "field" /\ ~call.current /\ call.dropped > 0
    /\ GetItem(_query, named[1]) = <<>>
    /\ named[1] \notin Keys(parse(Self).ret.value)

(***************************************************************************)
(* C4 as stated: every operation keeps, for every field, the list before   *)
(* it as a prefix of the list after it.                                    *)
(***************************************************************************)
C4_AppendOnly ==
    [][\A f \in Keys(_query) :
          f \in Keys(_query') /\ IsPrefix(GetItem(_query, f), GetItem(_query', f))]_vars

(***************************************************************************)
(* C4 as amended: every operation keeps every field, and keeps its list as *)
(* a prefix of the list after it, except that a field selection naming a   *)
(* field other than the current one leaves that one field with the empty   *)
(* list.                                                                   *)
(***************************************************************************)
C4_AppendOnlyUnlessSelectedAnew ==
    [][\A f \in Keys(_query) :
          /\ f \in Keys(_query')
          /\ \/ IsPrefix(GetItem(_query, f), GetItem(_query', f))
             \/ /\ call'.method = "field"
                /\ ~call'.current
                /\ named' = Some(f)
                /\ GetItem(_query', f) = <<>>]_vars

\* a field selection emptied a list that held an entry and kept the other field's entry
C4_Witness ==
    /\ call.method = "field" /\ ~call.current /\ call.dropped = 1
    /\ Cardinality(Filled(_query)) = 1

(***************************************************************************)
(* C5: selecting the field that is already current changes neither the     *)
(* cursor nor any list, so the calls that follow see the same builder.     *)
(***************************************************************************)
C5_SelectingCurrentIsNoOp ==
    /\ named # None => field(Self, named[1]) = [self |-> Self, ret |-> ReturnSelf]
    /\ (call.method = "field" /\ call.current) =>
          (ret = ReturnSelf /\ _last_field = named /\ GetItem(_query, named[1]) = log[named[1]])

\* the current field was selected again while it held entries
C5_Witness ==
    call.method = "field" /\ call.current /\ GetItem(_query, named[1]) # <<>>

(***************************************************************************)
(* C6 as stated: the builder constructed with an initial field name and    *)
(* the builder constructed without one and then given the name by field    *)
(* have the same cursor and query, and every following call has the same   *)
(* outcome on both.                                                        *)
(***************************************************************************)
C6_ConstructorIsFieldCall == Twin = Self /\ twin_ret = ret

(***************************************************************************)
(* C7: an operator call with the value None appends nothing and leaves the *)
(* cursor and every list as they were; where a field is selected it        *)
(* returns the builder itself.                                             *)
(***************************************************************************)
C7_NoneValueIsIgnored ==
    /\ \A name \in Operators, dt_format \in Formats :
          LET r == _add_filter(Self, name, NoneValue, dt_format)
          IN  /\ r.self = Self
              /\ parse(r.self) = parse(Self)
              /\ selected => r.ret = ReturnSelf
    /\ (selected /\ call.method = "operator" /\ call.none_value) => ret = ReturnSelf
    /\ \A f \in Keys(_query) : GetItem(_query, f) = log[f]

\* an operator was called with None on a field that holds an entry
C7_Witness ==
    /\ selected /\ call.method = "operator" /\ call.none_value /\ ret = ReturnSelf
    /\ GetItem(_query, named[1]) # <<>>

(***************************************************************************)
(* C8: the keys of the mapping parse returns are exactly the selected      *)
(* fields whose list is not empty; with no entry recorded the mapping is   *)
(* empty.                                                                  *)
(***************************************************************************)
C8_ParseOmitsEmptyFields ==
    /\ selected =>
          /\ Keys(parse(Self).ret.value) = Filled(_query)
          /\ Len(parse(Self).ret.value) = Cardinality(Filled(_query))
          /\ (\A f \in FieldNames : log[f] = <<>>) => parse(Self).ret.value = <<>>
    /\ (call.method = "parse" /\ ret.kind = "value") =>
          Keys(ret.value) = {f \in FieldNames : log[f] # <<>>}

\* parse returned a mapping that has one of two selected fields
C8_Witness ==
    /\ call.method = "parse" /\ ret.kind = "value"
    /\ Len(_query) = 2 /\ Len(ret.value) = 1

(***************************************************************************)
(* C9: parse renders a list of one entry as the bare entry, and a list of  *)
(* two or more entries as the list of all of them in the order of the      *)
(* operator calls.                                                         *)
(***************************************************************************)
C9_Rendering ==
    (call.method = "parse" /\ ret.kind = "value") =>
        \A i \in 1..Len(ret.value) :
            LET f == ret.value[i].key
                shown == ret.value[i].value
            IN  /\ Len(log[f]) = 1 =>
                    shown = [type |-> "dict", dict |-> log[f][1], list |-> <<>>]
                /\ Len(log[f]) >= 2 =>
                    shown = [type |-> "list", dict |-> <<>>, list |-> log[f]]
                /\ Len(log[f]) >= 1

\* parse returned a list of two different entries
C9_Witness ==
    /\ call.method = "parse" /\ ret.kind = "value"
    /\ \E i \in 1..Len(ret.value) :
          /\ ret.value[i].value.type = "list"
          /\ Len(ret.value[i].value.list) >= 2
          /\ ret.value[i].value.list[1] # ret.value[i].value.list[2]

(***************************************************************************)
(* C10 as stated: once a field has been selected no call raises the query  *)
(* error.                                                                  *)
(***************************************************************************)
C10_NoErrorOnceSelected == selected => ~QueryError(ret)

(***************************************************************************)
(* C10 as amended: an operator call raises the query error exactly when no *)
(* field has been selected or its value is a datetime and its format is    *)
(* None; parse raises it exactly when no field has been selected; field    *)
(* never raises.                                                           *)
(***************************************************************************)
C10_UsageErrors ==
    /\ \A name \in Operators, value \in Values, dt_format \in Formats :
          QueryError(_add_filter(Self, name, value, dt_format).ret)
              <=> (~selected \/ (value.type = "datetime" /\ dt_format = None))
    /\ QueryError(parse(Self).ret) <=> ~selected
    /\ \A f \in FieldNames : field(Self, f).ret = ReturnSelf
    /\ (selected /\ QueryError(ret)) => (call.method = "operator" /\ ret.message = MsgNoFormat)

\* an operator called with a datetime and the format None raised on a selected field
C10_Witness ==
    selected /\ call.method = "operator" /\ ret = DentalinkClientQueryError(MsgNoFormat)

(***************************************************************************)
(* C15 as stated: the cursor is unset exactly when the query has no key    *)
(* and is otherwise one of its keys; it stays set once a selection was     *)
(* made; and an operator call raises the query error in a state exactly    *)
(* when parse raises it in that state.                                     *)
(***************************************************************************)
C15_CursorAndKeys ==
    /\ _last_field = None <=> _query = <<>>
    /\ _last_field # None => _last_field[1] \in Keys(_query)
    /\ selected <=> _last_field # None
    /\ LET parse_raises == QueryError(parse(Self).ret)
       IN  \A name \in Operators, value \in Values, dt_format \in Formats :
              QueryError(_add_filter(Self, name, value, dt_format).ret) <=> parse_raises

(***************************************************************************)
(* C15 as amended: as stated, except that it is the error of the missing   *)
(* field that an operator call raises exactly when parse raises its error  *)
(* (the error of the missing format is raised in every state).             *)
(***************************************************************************)
C15_CursorAndKeysMissingField ==
    /\ _last_field = None <=> _query = <<>>
    /\ _last_field # None => _last_field[1] \in Keys(_query)
    /\ selected <=> _last_field # None
    /\ LET parse_raises == QueryError(parse(Self).ret)
       IN  \A name \in Operators, value \in Values, dt_format \in Formats :
              (_add_filter(Self, name, value, dt_format).ret
                   = DentalinkClientQueryError(MsgNoField)) <=> parse_raises

\* an operator call appended under the cursor while the query has two keys
C15_Witness ==
    /\ call.method = "operator" /\ ~call.none_value /\ ret = ReturnSelf
    /\ Len(_query) = 2 /\ _last_field # None /\ GetItem(_query, _last_field[1]) # <<>>

(***************************************************************************)
(* C16: the fields of the mapping parse returns are in the order of their  *)
(* first selection; a field selected anew keeps its place.                 *)
(***************************************************************************)
KeySeq(d) == [i \in 1..Len(d) |-> d[i].key]

C16_FirstSelectionOrder ==
    /\ KeySeq(_query) = order
    /\ selected =>
          KeySeq(parse(Self).ret.value)
              = SelectSeq(order, LAMBDA f : GetItem(_query, f) # <<>>)
    /\ (call.method = "parse" /\ ret.kind = "value") =>
          KeySeq(ret.value) = SelectSeq(order, LAMBDA f : log[f] # <<>>)

\* parse returned both fields, the first of them selected anew after the second
C16_Witness ==
    /\ call.method = "parse" /\ ret.kind = "value" /\ Len(ret.value) = 2
    /\ named = Some(ret.value[1].key)
    /\ Len(order) = 2 /\ order[1] = ret.value[1].key

(***************************************************************************)
(* C14: whatever the operator and the format, a call with a boolean        *)
(* records {operator: "1"} for True and {operator: "0"} for False, and a   *)
(* call with any other value that is neither a date nor None records       *)
(* {operator: s} with s the value's direct string conversion.              *)
(***************************************************************************)
DirectString(value) ==
    CASE value = IntValue(0) -> "0"
      [] value = IntValue(1) -> "1"
      [] value.type = "str" -> value.str

C14_BooleanAsDigit ==
    (invoked # NotInvoked /\ selected /\ invoked.args.value.type \in {"bool", "int", "str"}) =>
        LET value == invoked.args.value
            recorded == GetItem(_query, named[1])
        IN  /\ ret = ReturnSelf
            /\ Len(recorded) = 1
            /\ recorded[1][1] = invoked.operation
            /\ value.type = "bool" => recorded[1][2] = (IF value.bool THEN "1" ELSE "0")
            /\ value.type # "bool" => recorded[1][2] = DirectString(value)

\* lk was called with False and recorded {"lk": "0"}
C14_Witness ==
    /\ invoked # NotInvoked /\ invoked.operation = "lk"
    /\ invoked.args.value = BoolValue(FALSE)
    /\ _last_field # None /\ GetItem(_query, _last_field[1]) = << <<"lk", "0">> >>

(***************************************************************************)
(* C11: whenever the transport answers with a status code other than 200,  *)
(* the client operation raises the HTTP error with that status code; its   *)
(* message is the body's error.message where the body decodes as JSON and  *)
(* holds the raw response text where it does not.                          *)
(***************************************************************************)
C11_Non200IsHTTPError ==
    (response # None /\ response[1].status_code # 200) =>
        LET resp == response[1]
            prefix == "[HTTP " \o ToString(resp.status_code) \o "] "
        IN  /\ result.kind = "raise"
            /\ result.exc = "DentalinkClientHTTPException"
            /\ result.code = resp.status_code
            /\ resp.json = None =>
                  result.message \in {resp.text, prefix \o resp.text,
                                      prefix \o "Error inesperado: " \o resp.text}
            /\ (resp.json # None /\ "error" \in Keys(resp.json[1])) =>
                  result.message \in {GetItem(GetItem(resp.json[1], "error"), "message"),
                                      prefix \o GetItem(GetItem(resp.json[1], "error"), "message")}

(***************************************************************************)
(* C12: the body of the PUT of actualizar_cita_segun_id has, among         *)
(* duracion, id_estado and comentarios, exactly the keys whose argument is *)
(* neither None, nor 0, nor the empty string, each with its argument; and  *)
(* flag_notificar_anulacion is in it, as true, exactly when the argument   *)
(* is True.                                                                *)
(***************************************************************************)
Falsy == {NoneValue, IntValue(0), StrValue(""), BoolValue(FALSE)}

C12_UpdateBodyHasTruthyOnly ==
    (invoked.operation = "actualizar_cita_segun_id") =>
        /\ sent # None
        /\ sent[1].method = "PUT"
        /\ sent[1].uri = _url \o "/citas/" \o ToString(invoked.args.id_cita)
        /\ sent[1].json # None
        /\ LET data == sent[1].json[1]
               args == invoked.args
           IN  /\ Keys(data) \subseteq
                      {"duracion", "id_estado", "comentarios", "flag_notificar_anulacion"}
               /\ Len(data) = Cardinality(Keys(data))
               /\ "duracion" \in Keys(data) <=> args.duracion \notin Falsy
               /\ "id_estado" \in Keys(data) <=> args.id_estado \notin Falsy
               /\ "comentarios" \in Keys(data) <=> args.comentarios \notin Falsy
               /\ "flag_notificar_anulacion" \in Keys(data)
                      <=> args.flag_notificar_anulacion = BoolValue(TRUE)
               /\ \A k \in Keys(data) \ {"flag_notificar_anulacion"} :
                      GetItem(data, k) = args[k]
               /\ "flag_notificar_anulacion" \in Keys(data) =>
                      GetItem(data, "flag_notificar_anulacion") = BoolValue(TRUE)

\* duracion 0, an empty comment and the flag False all left out, id_estado kept
C12_Witness ==
    /\ invoked.operation = "actualizar_cita_segun_id"
    /\ invoked.args.duracion = IntValue(0)
    /\ invoked.args.comentarios = StrValue("")
    /\ invoked.args.flag_notificar_anulacion = BoolValue(FALSE)
    /\ sent # None
    /\ sent[1].json = Some(<<[key |-> "id_estado", value |-> IntValue(1)]>>)

(***************************************************************************)
(* C13: a list operation never fails before its request; the filter it     *)
(* serializes has exactly the fields of which an argument is not None, in  *)
(* the order of the operation, a False argument recorded as "0"; the URI   *)
(* of the GET is the bare resource URI when no argument is given and the   *)
(* resource URI followed by ?q= and the encoded filter otherwise.          *)
(***************************************************************************)
ListOperations == {"obtener_citas", "obtener_estados_de_cita", "obtener_sucursales"}

Endpoint(operation) ==
    CASE operation = "obtener_citas" -> "/citas"
      [] operation = "obtener_estados_de_cita" -> "/citas/estados"
      [] operation = "obtener_sucursales" -> "/sucursales"

\* per field of the operation's filter, the arguments compared with it
FieldArguments(operation, args) ==
    CASE operation = "obtener_citas" ->
            << <<"fecha", <<args.start_date, args.end_date>> >>,
               <<"id_sucursal", <<args.id_sucursal>> >>,
               <<"id_estado", <<args.id_estado>> >> >>
      [] operation = "obtener_estados_de_cita" ->
            << <<"nombre", <<args.nombre>> >>,
               <<"reservado", <<args.reservado>> >>,
               <<"anulacion", <<args.anulacion>> >>,
               <<"uso_interno", <<args.uso_interno>> >>,
               <<"habilitado", <<args.habilitado>> >> >>
      [] operation = "obtener_sucursales" ->
            << <<"nombre", <<args.nombre>> >>,
               <<"habilitada", <<args.habilitada>> >> >>

Provided(arguments) == \E i \in 1..Len(arguments) : arguments[i] # NoneValue

C13_FilterOfProvidedArguments ==
    (invoked.operation \in ListOperations) =>
        LET fields == FieldArguments(invoked.operation, invoked.args)
            provided == SelectSeq(fields, LAMBDA f : Provided(f[2]))
            bare == _url \o Endpoint(invoked.operation)
        IN  /\ sent # None
            /\ sent[1].method = "GET"
            /\ sent[1].json = None
            /\ sent[1].query # None
            /\ KeySeq(sent[1].query[1]) = [i \in 1..Len(provided) |-> provided[i][1]]
            /\ \A i \in 1..Len(provided) :
                  provided[i][2] = <<BoolValue(FALSE)>> =>
                      sent[1].query[1][i].value.dict = <<"eq", "0">>
            /\ provided = <<>> <=> sent[1].uri = bare
            /\ provided # <<>> =>
                  sent[1].uri = bare \o "?q=" \o quote(dumps(sent[1].query[1]))

\* obtener_sucursales(nombre="bar", habilitada=False)
C13_Witness ==
    /\ invoked.operation = "obtener_sucursales"
    /\ invoked.args = [nombre |-> StrValue("bar"), habilitada |-> BoolValue(FALSE)]
    /\ sent # None
    /\ sent[1].uri = _url \o "/sucursales?q=%7B%22nombre%22:%20%7B%22eq%22:%20%22bar%22%7D,"
                          \o "%20%22habilitada%22:%20%7B%22eq%22:%20%220%22%7D%7D"

====
